---- MODULE Spec2Model ----
(***************************************************************************)
(* Model of the task-list HTTP API of src/main.py: a table "tarefas" with  *)
(* a UNIQUE index on nome, HTTP Basic credentials checked against USERS_DB *)
(* and the four endpoints POST/GET/PUT/DELETE /tarefas/.                   *)
(*                                                                         *)
(* Spec     : requests handled one after the other (each handler body is   *)
(*            an "async def" without an await, so inside one server        *)
(*            process a handler runs from its query to its commit without  *)
(*            another handler in between).                                 *)
(* SpecConc : two server workers on the same database file; the POST       *)
(*            handler is split at its two database round trips (the SELECT *)
(*            of line 72 and the INSERT/COMMIT of lines 77-79).            *)
(***************************************************************************)
EXTENDS Integers, Sequences, FiniteSets, TLC

VARIABLES tarefas, antes, resp, pc

vars == <<tarefas, antes, resp, pc>>

----------------------------------------------------------------------------
(* Bounds of the model *)

MaxId == 3
MaxPage == 2
MaxSmallSize == 2

(* le=100 of the size query parameter *)
PageSizeMax == 100

Nomes == {"a", "b"}
Descricoes == {"x", "y"}
Workers == {1, 2}

(* BINARY collation of the strings the model uses *)
Alfabeto == <<"a", "b", "x", "y">>

Ord(s) == CHOOSE i \in 1..Len(Alfabeto) : Alfabeto[i] = s

----------------------------------------------------------------------------
(* Pydantic model Tarefa and table TarefaDB *)

Tarefa == [nome : Nomes, descricao : Descricoes, concluida : BOOLEAN]

TarefaDB == [id : 1..MaxId, nome : Nomes, descricao : Descricoes, concluida : BOOLEAN]

(* response_model=Tarefa: the id column is not serialised *)
ToTarefa(row) == [nome |-> row.nome, descricao |-> row.descricao, concluida |-> row.concluida]

RECURSIVE ToTarefas(_)
ToTarefas(rows) ==
    IF rows = <<>> THEN <<>> ELSE <<ToTarefa(Head(rows))>> \o ToTarefas(Tail(rows))

----------------------------------------------------------------------------
(* Credentials *)

NoCredentials == [username |-> "", password |-> "", present |-> FALSE]

Credentials ==
    {NoCredentials} \cup
    {[username |-> "admin", password |-> "admin123", present |-> TRUE],
     [username |-> "admin", password |-> "errada", present |-> TRUE],
     [username |-> "guest", password |-> "admin123", present |-> TRUE]}

(* pwd_context.hash / pwd_context.verify: a salted digest of the password *)
Hash(password) == [salt |-> "s0", digest |-> <<"s0", password>>]

Verify(password, hashed) == hashed.digest = <<hashed.salt, password>>

USERS_DB == [u \in {"admin"} |-> [username |-> "admin", hashed_password |-> Hash("admin123")]]

(* the password of a known user is not verified *)
verify_credentials_NoPassword(credentials) ==
    /\ credentials.present
    /\ credentials.username \in DOMAIN USERS_DB

(* TRUE when the dependency returns the username, FALSE when it raises 401;
   HTTPBasic itself raises 401 when the Authorization header is absent *)
verify_credentials(credentials) ==
    /\ credentials.present
    /\ credentials.username \in DOMAIN USERS_DB
    /\ Verify(credentials.password, USERS_DB[credentials.username].hashed_password)

----------------------------------------------------------------------------
(* Database operations *)

Response(status, detail, body, db) ==
    [status |-> status, detail |-> detail, body |-> body, db |-> db]

Unauthorized(db) == Response(401, "Credenciais invalidas", <<>>, db)

(* db.query(TarefaDB).filter(TarefaDB.nome == nome): rows in rowid order *)
FilterNome(db, nome) == SelectSeq(db, LAMBDA row : row.nome = nome)

(* .first(): the first row or None, here the sequence of at most one row *)
First(rows) == IF rows = <<>> THEN <<>> ELSE <<Head(rows)>>

(* the column declared without unique=True *)
UniqueNome_Omitted(db, nome) == TRUE

(* unique=True on the nome column *)
UniqueNome(db, nome) == \A i \in 1..Len(db) : db[i].nome # nome

(* INTEGER PRIMARY KEY: the next rowid is one more than the largest in use *)
NextId(db) ==
    IF db = <<>> THEN 1
    ELSE 1 + (CHOOSE m \in {db[i].id : i \in 1..Len(db)} :
                  \A i \in 1..Len(db) : db[i].id <= m)

NewRow(db, tarefa) ==
    [id |-> NextId(db), nome |-> tarefa.nome, descricao |-> tarefa.descricao,
     concluida |-> tarefa.concluida]

(* db.add; db.commit; db.refresh: the INSERT is refused by the UNIQUE index
   with an IntegrityError no handler catches, which the server answers 500 *)
AddCommit(db, tarefa) ==
    IF UniqueNome(db, tarefa.nome)
    THEN Response(200, "", <<ToTarefa(NewRow(db, tarefa))>>, Append(db, NewRow(db, tarefa)))
    ELSE Response(500, "Internal Server Error", <<>>, db)

----------------------------------------------------------------------------
(* Endpoints: each returns the response and the table after the request *)

(* the handler without its query for an existing task *)
adicionar_tarefa_NoQuery(db, tarefa) == AddCommit(db, tarefa)

(* POST /tarefas/ *)
adicionar_tarefa(db, tarefa) ==
    LET existing_tarefa == First(FilterNome(db, tarefa.nome))
    IN  IF existing_tarefa # <<>>
        THEN Response(400, "Tarefa com este nome ja existe", <<>>, db)
        ELSE AddCommit(db, tarefa)

(* Query(..., ge=1), Query(..., ge=1, le=100), Query(..., regex=...): the
   framework validates the query parameters before the handler body runs and
   answers 422 when one of them is refused *)
SortFields == {"nome", "descricao", "concluida"}

QueryParamsValid(page, size, sort_by) ==
    /\ page >= 1
    /\ size >= 1
    /\ size <= PageSizeMax
    /\ sort_by \in SortFields

SortKey(row, sort_by) ==
    IF sort_by = "nome" THEN Ord(row.nome)
    ELSE IF sort_by = "descricao" THEN Ord(row.descricao)
    ELSE IF row.concluida THEN 1 ELSE 0

(* one row put into an ordered sequence, after the rows whose key is not larger *)
RECURSIVE InsertOrdered(_, _, _)
InsertOrdered(sorted, row, sort_by) ==
    IF sorted = <<>> THEN <<row>>
    ELSE IF SortKey(Head(sorted), sort_by) <= SortKey(row, sort_by)
         THEN <<Head(sorted)>> \o InsertOrdered(Tail(sorted), row, sort_by)
         ELSE <<row>> \o sorted

(* the query without its order_by: rows in rowid order *)
OrderBy_Omitted(rows, sort_by) == rows

(* query.order_by(column): ascending, rows of equal key in rowid order (the
   order of the column's index) *)
RECURSIVE OrderBy(_, _)
OrderBy(rows, sort_by) ==
    IF rows = <<>> THEN <<>>
    ELSE InsertOrdered(OrderBy(SubSeq(rows, 1, Len(rows) - 1), sort_by),
                       rows[Len(rows)], sort_by)

(* the window one row too long *)
OffsetLimit_OneMore(rows, start_idx, size) ==
    LET last == IF start_idx + size + 1 < Len(rows) THEN start_idx + size + 1 ELSE Len(rows)
    IN  SubSeq(rows, start_idx + 1, last)

(* query.offset(start_idx).limit(size).all() *)
OffsetLimit(rows, start_idx, size) ==
    LET last == IF start_idx + size < Len(rows) THEN start_idx + size ELSE Len(rows)
    IN  SubSeq(rows, start_idx + 1, last)

(* GET /tarefas/ (handler body) *)
listar_tarefas(db, page, size, sort_by) ==
    IF page < 1
    THEN Response(400, "O numero da pagina deve ser maior que 0", <<>>, db)
    ELSE IF size < 1 \/ size > PageSizeMax
    THEN Response(400, "O tamanho da pagina deve estar entre 1 e 100", <<>>, db)
    ELSE LET query == IF sort_by \in SortFields THEN OrderBy(db, sort_by) ELSE db
             start_idx == (page - 1) * size
         IN  Response(200, "", ToTarefas(OffsetLimit(query, start_idx, size)), db)

(* GET /tarefas/ with the validation of its query parameters *)
get_tarefas(db, page, size, sort_by) ==
    IF QueryParamsValid(page, size, sort_by)
    THEN listar_tarefas(db, page, size, sort_by)
    ELSE Response(422, "Unprocessable Entity", <<>>, db)

(* the flag flipped instead of set *)
marcar_concluida_Toggle(db, nome_tarefa) ==
    LET tarefa == First(FilterNome(db, nome_tarefa))
    IN  IF tarefa = <<>>
        THEN Response(404, "Tarefa nao encontrada", <<>>, db)
        ELSE LET db2 == [i \in 1..Len(db) |->
                            IF db[i].id = tarefa[1].id
                            THEN [db[i] EXCEPT !.concluida = ~db[i].concluida]
                            ELSE db[i]]
             IN  Response(200, "", ToTarefas(First(FilterNome(db2, nome_tarefa))), db2)

(* the flag never written to the row *)
marcar_concluida_NoWrite(db, nome_tarefa) ==
    LET tarefa == First(FilterNome(db, nome_tarefa))
    IN  IF tarefa = <<>>
        THEN Response(404, "Tarefa nao encontrada", <<>>, db)
        ELSE Response(200, "", <<[ToTarefa(tarefa[1]) EXCEPT !.concluida = TRUE]>>, db)

(* PUT /tarefas/{nome_tarefa} *)
marcar_concluida(db, nome_tarefa) ==
    LET tarefa == First(FilterNome(db, nome_tarefa))
    IN  IF tarefa = <<>>
        THEN Response(404, "Tarefa nao encontrada", <<>>, db)
        ELSE LET db2 == [i \in 1..Len(db) |->
                            IF db[i].id = tarefa[1].id
                            THEN [db[i] EXCEPT !.concluida = TRUE]
                            ELSE db[i]]
             IN  Response(200, "", ToTarefas(First(FilterNome(db2, nome_tarefa))), db2)

(* the row found but the DELETE never issued *)
remover_tarefa_NoDelete(db, nome_tarefa) ==
    LET tarefa == First(FilterNome(db, nome_tarefa))
    IN  IF tarefa = <<>>
        THEN Response(404, "Tarefa nao encontrada", <<>>, db)
        ELSE Response(200, "Tarefa removida com sucesso", <<>>, db)

(* DELETE /tarefas/{nome_tarefa} *)
remover_tarefa(db, nome_tarefa) ==
    LET tarefa == First(FilterNome(db, nome_tarefa))
    IN  IF tarefa = <<>>
        THEN Response(404, "Tarefa nao encontrada", <<>>, db)
        ELSE Response(200, "Tarefa removida com sucesso", <<>>,
                      SelectSeq(db, LAMBDA row : row.id # tarefa[1].id))

----------------------------------------------------------------------------
(* Requests handled one after the other *)

NoTarefa == [nome |-> "", descricao |-> "", concluida |-> FALSE]

Request(op, cred) ==
    [op |-> op, cred |-> cred, tarefa |-> NoTarefa, nome |-> "",
     page |-> 0, size |-> 0, sort_by |-> ""]

Idle == [st |-> "idle", op |-> "", tarefa |-> NoTarefa, status |-> 0]

Pages == 0..MaxPage

Sizes == (0..MaxSmallSize) \cup {PageSizeMax, PageSizeMax + 1}

SortInputs == SortFields \cup {"id"}

Init ==
    /\ tarefas = <<>>
    /\ antes = <<>>
    /\ resp = [req |-> Request("none", NoCredentials), status |-> 0, detail |-> "", body |-> <<>>]
    /\ pc = [w \in Workers |-> Idle]

(* the credentials dependency runs first; then the handler *)
Serve(req, r) ==
    LET out == IF verify_credentials(req.cred) THEN r ELSE Unauthorized(tarefas)
    IN  /\ out.db # tarefas => NextId(tarefas) <= MaxId
        /\ tarefas' = out.db
        /\ antes' = tarefas
        /\ resp' = [req |-> req, status |-> out.status, detail |-> out.detail,
                    body |-> out.body]
        /\ UNCHANGED pc

Create ==
    \E cred \in Credentials, tarefa \in Tarefa :
        Serve([Request("create", cred) EXCEPT !.tarefa = tarefa],
              adicionar_tarefa(tarefas, tarefa))

List ==
    \E cred \in Credentials, page \in Pages, size \in Sizes, sort_by \in SortInputs :
        Serve([Request("list", cred) EXCEPT !.page = page, !.size = size, !.sort_by = sort_by],
              get_tarefas(tarefas, page, size, sort_by))

Complete ==
    \E cred \in Credentials, nome \in Nomes :
        Serve([Request("complete", cred) EXCEPT !.nome = nome],
              marcar_concluida(tarefas, nome))

Delete ==
    \E cred \in Credentials, nome \in Nomes :
        Serve([Request("delete", cred) EXCEPT !.nome = nome],
              remover_tarefa(tarefas, nome))

Next == Create \/ List \/ Complete \/ Delete

Spec == Init /\ [][Next]_vars

----------------------------------------------------------------------------
(* Two workers on the same database, every request authenticated.  POST is
   two steps, the SELECT and then the INSERT with its COMMIT; the other
   requests are one step each. *)

Done(op, nome, status) ==
    [st |-> "done", op |-> op, tarefa |-> [NoTarefa EXCEPT !.nome = nome], status |-> status]

Free(w) == pc[w].st # "adding"

(* existing_tarefa = db.query(TarefaDB).filter(...).first() and the 400 *)
PostQuery(w) ==
    /\ Free(w)
    /\ \E tarefa \in Tarefa :
          LET existing_tarefa == First(FilterNome(tarefas, tarefa.nome))
          IN  pc' = [pc EXCEPT ![w] =
                        IF existing_tarefa # <<>>
                        THEN Done("create", tarefa.nome, 400)
                        ELSE [st |-> "adding", op |-> "create", tarefa |-> tarefa,
                              status |-> 0]]
    /\ UNCHANGED <<tarefas, antes, resp>>

(* db.add(db_tarefa); db.commit(); db.refresh(db_tarefa) *)
PostCommit(w) ==
    /\ pc[w].st = "adding"
    /\ LET out == AddCommit(tarefas, pc[w].tarefa)
       IN  /\ out.db # tarefas => NextId(tarefas) <= MaxId
           /\ tarefas' = out.db
           /\ pc' = [pc EXCEPT ![w] = Done("create", pc[w].tarefa.nome, out.status)]
    /\ UNCHANGED <<antes, resp>>

Answer(w, op, nome, out) ==
    /\ Free(w)
    /\ tarefas' = out.db
    /\ pc' = [pc EXCEPT ![w] = Done(op, nome, out.status)]
    /\ UNCHANGED <<antes, resp>>

GetStep(w) ==
    \E out \in {get_tarefas(tarefas, page, size, sort_by) :
                    page \in Pages, size \in Sizes, sort_by \in SortInputs} :
        Answer(w, "list", "", out)

PutStep(w) ==
    \E nome \in Nomes : Answer(w, "complete", nome, marcar_concluida(tarefas, nome))

DeleteStep(w) ==
    \E nome \in Nomes : Answer(w, "delete", nome, remover_tarefa(tarefas, nome))

NextConc ==
    \E w \in Workers :
        PostQuery(w) \/ PostCommit(w) \/ GetStep(w) \/ PutStep(w) \/ DeleteStep(w)

SpecConc == Init /\ [][NextConc]_vars

----------------------------------------------------------------------------
(* Vocabulary of the properties *)

NomesDe(db) == {db[i].nome : i \in 1..Len(db)}

LinhasDe(db) == {db[i] : i \in 1..Len(db)}

Admin == [username |-> "admin", password |-> "admin123", present |-> TRUE]

(* the last request was `op`, sent with the admin credentials *)
Authed(op) == resp.req.op = op /\ resp.req.cred = Admin

Finished(w, op) == pc[w].st = "done" /\ pc[w].op = op

----------------------------------------------------------------------------
(* C1: whatever requests the two workers have served, in whatever
   interleaving, no two stored records have the same nome. *)
C1_UniqueNames ==
    \A i, j \in 1..Len(tarefas) : tarefas[i].nome = tarefas[j].nome => i = j

(* a POST that found no record with its nome was refused by the index,
   while two records are stored *)
C1_Witness ==
    /\ Len(tarefas) = 2
    /\ \E w \in Workers : Finished(w, "create") /\ pc[w].status = 500

(* C2: a POST whose nome is already stored is answered 400 "Tarefa com este
   nome ja existe" and the table after it is the table before it. *)
C2_DuplicateRejected ==
    (Authed("create") /\ resp.req.tarefa.nome \in NomesDe(antes)) =>
        /\ resp.status = 400
        /\ resp.detail = "Tarefa com este nome ja existe"
        /\ tarefas = antes

(* the refused POST carried a descricao and a concluida that differ from the
   stored record's *)
C2_Witness ==
    /\ Authed("create")
    /\ \E row \in LinhasDe(antes) :
          /\ row.nome = resp.req.tarefa.nome
          /\ row.descricao # resp.req.tarefa.descricao
          /\ row.concluida # resp.req.tarefa.concluida
    /\ resp.status = 400

(* C3: a request of any of the four operations without credentials, with an
   unknown username or with a wrong password is answered 401 and leaves the
   table as it was; with the admin credentials it is never answered 401. *)
C3_Credentials ==
    resp.req.op \in {"create", "list", "complete", "delete"} =>
        IF resp.req.cred = Admin
        THEN resp.status # 401
        ELSE resp.status = 401 /\ resp.body = <<>> /\ tarefas = antes

(* a DELETE of a stored task with a wrong password for admin was refused *)
C3_Witness ==
    /\ resp.req.op = "delete"
    /\ resp.req.cred = [username |-> "admin", password |-> "errada", present |-> TRUE]
    /\ resp.req.nome \in NomesDe(tarefas)
    /\ resp.status = 401

(* C4: a successful DELETE leaves no record of that nome; a nome enters the
   table only by a successful POST of that nome; while a nome is not in the
   table a GET returns no record of it and PUT and DELETE of it are answered
   404 without changing the table. *)
C4_DeletedStaysGone ==
    /\ (Authed("delete") /\ resp.status = 200) => resp.req.nome \notin NomesDe(tarefas)
    /\ \A nome \in NomesDe(tarefas) \ NomesDe(antes) :
          Authed("create") /\ resp.status = 200 /\ resp.req.tarefa.nome = nome
    /\ (Authed("list") /\ resp.status = 200) =>
          \A i \in 1..Len(resp.body) : resp.body[i].nome \in NomesDe(tarefas)
    /\ ((Authed("complete") \/ Authed("delete")) /\ resp.req.nome \notin NomesDe(antes)) =>
          resp.status = 404 /\ tarefas = antes

(* a DELETE removed one of two stored records *)
C4_Witness ==
    /\ Authed("delete")
    /\ resp.status = 200
    /\ resp.req.nome \in NomesDe(antes)
    /\ Len(tarefas) = 1

(* C5: PUT of a nome that is not stored is answered 404 and changes nothing;
   PUT of a stored nome is answered 200 with concluida = TRUE, changes no
   other column and no other row, and a further PUT of the same nome is
   answered 200 and leaves the table as the first left it. *)
C5_CompleteIdempotent ==
    Authed("complete") =>
        IF resp.req.nome \notin NomesDe(antes)
        THEN resp.status = 404 /\ tarefas = antes
        ELSE /\ resp.status = 200
             /\ Len(resp.body) = 1
             /\ resp.body[1].nome = resp.req.nome
             /\ resp.body[1].concluida
             /\ Len(tarefas) = Len(antes)
             /\ \A i \in 1..Len(antes) :
                   tarefas[i] = IF antes[i].nome = resp.req.nome
                                THEN [antes[i] EXCEPT !.concluida = TRUE]
                                ELSE antes[i]
             /\ LET again == marcar_concluida(tarefas, resp.req.nome)
                IN  again.status = 200 /\ again.db = tarefas /\ again.body = resp.body

(* the second PUT of a task: the table was already as the PUT leaves it *)
C5_Witness ==
    /\ Authed("complete")
    /\ resp.status = 200
    /\ tarefas = antes
    /\ Len(tarefas) = 2

(* C6: a GET with page >= 1, 1 <= size <= 100 and a sort field of the
   list is answered 200 with at most size records, and with none when
   (page - 1) * size is at least the number of stored records. *)
C6_PageBounded ==
    (/\ Authed("list")
     /\ resp.req.page >= 1
     /\ resp.req.size >= 1
     /\ resp.req.size <= 100
     /\ resp.req.sort_by \in {"nome", "descricao", "concluida"}) =>
        /\ resp.status = 200
        /\ Len(resp.body) <= resp.req.size
        /\ (resp.req.page - 1) * resp.req.size >= Len(tarefas) => resp.body = <<>>

(* a page past the end of a table of two records *)
C6_Witness ==
    /\ Authed("list")
    /\ resp.status = 200
    /\ Len(tarefas) = 2
    /\ (resp.req.page - 1) * resp.req.size >= 2
    /\ resp.body = <<>>

(* C7: a GET with page < 1, with size < 1 or size > 100, or with a sort_by
   outside nome, descricao, concluida is answered 400 and returns no task. *)
C7_InvalidParams400 ==
    (/\ Authed("list")
     /\ \/ resp.req.page < 1
        \/ resp.req.size < 1
        \/ resp.req.size > 100
        \/ resp.req.sort_by \notin {"nome", "descricao", "concluida"}) =>
        resp.status = 400 /\ resp.body = <<>>

(* C8: across any request a record that stays in the table keeps its nome and
   descricao, its concluida never goes from TRUE to FALSE, and its concluida
   changes only by a PUT of its own nome. *)
C8_FlagMonotone ==
    \A a \in LinhasDe(antes), t \in LinhasDe(tarefas) :
        a.id = t.id =>
            /\ t.nome = a.nome
            /\ t.descricao = a.descricao
            /\ a.concluida => t.concluida
            /\ t.concluida # a.concluida =>
                  Authed("complete") /\ resp.req.nome = a.nome

(* a concluded record went through a PUT of its own nome, next to another
   record that is not concluded *)
C8_Witness ==
    /\ Authed("complete")
    /\ resp.status = 200
    /\ \E a \in LinhasDe(antes) : a.nome = resp.req.nome /\ a.concluida
    /\ \E t \in LinhasDe(tarefas) : t.nome # resp.req.nome /\ ~t.concluida

C9_Key(row, sort_by) ==
    CASE sort_by = "nome" -> Ord(row.nome)
      [] sort_by = "descricao" -> Ord(row.descricao)
      [] sort_by = "concluida" -> IF row.concluida THEN 1 ELSE 0

RECURSIVE C9_Pages(_, _, _)
C9_Pages(n, size, sort_by) ==
    IF n = 0 THEN <<>>
    ELSE C9_Pages(n - 1, size, sort_by) \o get_tarefas(tarefas, n, size, sort_by).body

(* C9: a successful GET returns the records at positions (page - 1) * size
   (inclusive) to page * size (exclusive) of the whole table in ascending
   order of the sort field, records of equal key in the order of their ids;
   the pages 1, 2, ... one after the other are the whole table, each record
   once, and every later page is empty. *)
C9_SortedPages ==
    (Authed("list") /\ resp.status = 200) =>
        LET sort_by == resp.req.sort_by
            size == resp.req.size
            start == (resp.req.page - 1) * size
            n == Len(tarefas)
            whole == CHOOSE s \in [1..n -> LinhasDe(tarefas)] :
                        /\ \A row \in LinhasDe(tarefas) : \E i \in 1..n : s[i] = row
                        /\ \A i, j \in 1..n :
                              i < j =>
                                 \/ C9_Key(s[i], sort_by) < C9_Key(s[j], sort_by)
                                 \/ /\ C9_Key(s[i], sort_by) = C9_Key(s[j], sort_by)
                                    /\ s[i].id < s[j].id
        IN  /\ Len(resp.body) = Cardinality({i \in 1..n : start < i /\ i <= start + size})
            /\ \A k \in 1..Len(resp.body) : resp.body[k] = ToTarefa(whole[start + k])
            /\ C9_Pages(n, size, sort_by) = ToTarefas(whole)
            /\ get_tarefas(tarefas, n + 1, size, sort_by).body = <<>>

(* the second page of size 1, by nome, of a table that stores b before a *)
C9_Witness ==
    /\ Authed("list")
    /\ resp.status = 200
    /\ resp.req.sort_by = "nome"
    /\ resp.req.size = 1
    /\ resp.req.page = 2
    /\ Len(tarefas) = 2
    /\ tarefas[1].nome = "b"
    /\ Len(resp.body) = 1
    /\ resp.body[1].nome = "b"

(* C10: every POST a worker has finished, however its two steps interleave
   with the other worker's, ended 200 or 400 "DuplicateName", and the table
   holds at most one record of each nome. *)
C10_ConcurrentCreate ==
    /\ \A w \in Workers :
          Finished(w, "create") => pc[w].status = 200 \/ pc[w].status = 400
    /\ \A i, j \in 1..Len(tarefas) : i # j => tarefas[i].nome # tarefas[j].nome

====
